---- MODULE Spec2Model ----
(***************************************************************************)
(* Model of src/index.js: an Express service over one MongoDB collection   *)
(* of artifact documents, with a like/unlike toggle and two endpoints      *)
(* guarded by a JWT cookie.                                                *)
(*                                                                         *)
(* Every `await` on the collection is one atomic step of the store (a      *)
(* single-document MongoDB operation); a handler with two awaits (the      *)
(* toggle) is two steps, and other requests may run between them.  A       *)
(* handler with one await is one step: its outcome (the status it sends    *)
(* and the collection it leaves) is an operator of the state and the       *)
(* request, and the action installs the outcome's collection.              *)
(*                                                                         *)
(* Values.  JSON scalars are integers: Undefined (a missing key), EmptyStr *)
(* (""), Null, and the positive numbers, which stand for distinct          *)
(* non-empty strings.  A route parameter :id is an integer too: k >= 1 is  *)
(* the 24-hex-digit text of ObjectId k, BadId is a text that is no         *)
(* ObjectId.  Store keys are _id values: ObjectId k is k >= 1, and         *)
(* ZeroId is the JSON number 0 a client may supply as _id.                 *)
(***************************************************************************)
EXTENDS Integers, Sequences, FiniteSets, TLC

\* ---- bounds of the model
NumIds == 1        \* ObjectIds the driver may generate
NumEmails == 2     \* distinct non-empty e-mail strings
NumProcs == 2      \* toggle requests per behaviour
NumVals == 1       \* distinct non-empty values of a descriptive field
MaxUpdates == 2    \* like-updates applied to an artifact before the toggles on it that are let in last
NumNames == 20     \* the texts a name or a search may be: the first of the shortlex order

\* ---- JSON values
Undefined == -1    \* a key that is missing (in a body, a query or a document)
EmptyStr == -2     \* ""
Null == -3

Emails == 1..NumEmails
Vals == 1..NumVals
Procs == 1..NumProcs

\* JavaScript truthiness of a scalar (`!email`, `?.email`)
Falsy(v) == v \in {Undefined, EmptyStr, Null, 0}

\* ---- identifiers
BadId == -4        \* a route parameter that is no ObjectId text, such as "xyz"
ZeroId == 0        \* the _id value 0 (a JSON number), falsy in JavaScript
ObjectIds == 1..NumIds
IdParams == {BadId} \cup 1..(NumIds + 1)

\* new ObjectId(id): throws unless the text is 24 hex digits
ObjectIdThrows(id) == id = BadId

VARIABLES
  store,      \* the collection: a function from the _id values present to documents
  nextOid,    \* the next ObjectId the driver generates
  tg,         \* the toggle requests: tg[p] is request p's handler state
  gr,         \* the request to a guarded endpoint being served, or the last one
  cookie,     \* the client's cookie `token`, as the responses have set it
  minted,     \* the tokens POST /jwt has signed so far
  listing     \* the last GET /history request and its response

vars == <<store, nextOid, tg, gr, cookie, minted, listing>>

\* ---- documents
\* fields stands for the eight descriptive fields (name, image, type,
\* description, createdAt, discoveredAt, discoveredBy, location), which the
\* code always handles together.  likedBy is an array (a sequence).  ver is
\* a history field: the number of like-updates applied to the document.
NewDoc(body) ==
  [addedBy |-> body.email, fields |-> body.fields,
   likedBy |-> <<>>, likeCount |-> 0, ver |-> 0]

\* Array.prototype.includes, and MongoDB's match of a scalar against an array
Includes(arr, e) == \E i \in 1..Len(arr) : arr[i] = e

\* $pull: removes every occurrence
RECURSIVE Pull(_, _)
Pull(arr, e) ==
  IF arr = <<>> THEN <<>>
  ELSE IF Head(arr) = e THEN Pull(Tail(arr), e)
  ELSE <<Head(arr)>> \o Pull(Tail(arr), e)

\* $push: appends always
Push(arr, e) == Append(arr, e)

\* $addToSet: appends unless already present
AddToSet(arr, e) == IF Includes(arr, e) THEN arr ELSE Append(arr, e)

\* insertion and removal of a document
Insert(coll, key, doc) ==
  [k \in DOMAIN coll \cup {key} |-> IF k = key THEN doc ELSE coll[k]]
Remove(coll, key) == [k \in DOMAIN coll \ {key} |-> coll[k]]

\* ---- credentials
\* The cookie `token`: missing, empty, text that is no JWT, or a JWT with its
\* e-mail claim, whether it is signed with ACCESS_TOKEN_SECRET, and whether
\* its exp has passed.
NoToken == [kind |-> "missing", email |-> Undefined, signed |-> FALSE, expired |-> FALSE]
Tokens ==
  {NoToken, [NoToken EXCEPT !.kind = "empty"], [NoToken EXCEPT !.kind = "malformed"]}
  \cup [kind : {"jwt"}, email : {Undefined} \cup Emails, signed : BOOLEAN, expired : BOOLEAN]

\* `!token`
TokenFalsy(token) == token.kind \in {"missing", "empty"}

\* jwt.verify calls back with an error
JwtVerifyErr(token) == token.kind # "jwt" \/ ~token.signed \/ token.expired

\* the middleware lets the request through: a token, and one jwt.verify accepts
ValidToken(token) == ~TokenFalsy(token) /\ ~JwtVerifyErr(token)

\* user is req.user.email (Undefined while req.user is not set, or has no
\* e-mail claim); attached says that req.user was set, verifyTried that
\* jwt.verify was called, handlerRan that next() was called, finds counts the
\* find operations issued, result is the set of _ids of the documents sent.
\* jar is a history field: the client's cookie when the request arrived (a
\* client may send a token it has kept, whatever its cookie is now).
NoGuarded ==
  [pc |-> "idle", route |-> "none", token |-> NoToken, jar |-> NoToken, qemail |-> Undefined,
   user |-> Undefined, attached |-> FALSE, verifyTried |-> FALSE,
   handlerRan |-> FALSE, finds |-> 0, status |-> 0, result |-> {}]

\* A toggle request: hasLiked is the handler's constant, the one thing it
\* keeps of the document findOne returned; status and liked are the
\* response.  History fields: countRead and verRead are the likeCount and
\* the ver of the document read, verWrite the document's ver just after the
\* request's update.
NoToggle ==
  [pc |-> "idle", id |-> BadId, email |-> Undefined,
   hasLiked |-> FALSE, status |-> 0, liked |-> FALSE,
   countRead |-> 0, verRead |-> 0, verWrite |-> 0]

\* A GET /history request: its search parameter, the status sent and the
\* set of _ids of the documents sent.
NoListing == [search |-> Undefined, status |-> 0, result |-> {}]

Init ==
  /\ store = [k \in {} |-> 0]
  /\ nextOid = 1
  /\ tg = [p \in Procs |-> NoToggle]
  /\ gr = NoGuarded
  /\ cookie = NoToken
  /\ minted = {}
  /\ listing = NoListing

\* ---- POST /history
\* id is the body's _id, email its addedBy?.email; likedBy and likeCount are
\* what the client sends for the two fields the server owns.
CreateBodies ==
  [id : {Undefined, ZeroId},
   email : {Undefined, EmptyStr} \cup Emails,
   fields : {Undefined} \cup Vals,
   likes : {[likedBy |-> <<>>, likeCount |-> 0], [likedBy |-> <<1>>, likeCount |-> 1]}]

\* the bodies of the requests that leave the _id to the driver
PlainBodies == {b \in CreateBodies : b.id = Undefined /\ b.email \in {Undefined, 1}}

\* the bodies that carry no descriptive field
BareBodies == {b \in CreateBodies : b.fields = Undefined}

\* the _id insertOne stores the document under: the driver generates an
\* ObjectId when the document carries none (doc._id == null)
InsertKey(body) == IF body.id \in {Undefined, Null} THEN nextOid ELSE body.id

\* the handler's outcome: the status sent and the collection left
CreateOutcome(body) ==
  IF Falsy(body.email)
    THEN [status |-> 400, store |-> store, nextOid |-> nextOid]
  ELSE LET key == InsertKey(body) IN
       IF key \in DOMAIN store
         THEN \* duplicate key: insertOne throws
              [status |-> 500, store |-> store, nextOid |-> nextOid]
         ELSE [status |-> IF Falsy(key) THEN 400 ELSE 201,
               store |-> Insert(store, key, NewDoc(body)),
               nextOid |-> IF body.id \in {Undefined, Null} THEN nextOid + 1 ELSE nextOid]

Create(body) ==
  /\ InsertKey(body) \in ObjectIds \cup {ZeroId}
  /\ store' = CreateOutcome(body).store
  /\ nextOid' = CreateOutcome(body).nextOid
  /\ UNCHANGED <<tg, gr, cookie, minted, listing>>

\* ---- PATCH /artifact/:id/like
\* The update document the handler builds from what it read (lines 163-171),
\* applied by updateOne to the document as it is when the update runs.
\* A lost update: the new likeCount is computed from the count that was read.
LikeUpdateFromRead(doc, req) ==
  IF req.hasLiked
    THEN [doc EXCEPT !.likeCount = req.countRead - 1, !.likedBy = Pull(@, req.email),
                     !.ver = @ + 1]
    ELSE [doc EXCEPT !.likeCount = req.countRead + 1, !.likedBy = AddToSet(@, req.email),
                     !.ver = @ + 1]

\* The unlike branch increments likeCount as the like branch does.
LikeUpdateAlwaysInc(doc, req) ==
  IF req.hasLiked
    THEN [doc EXCEPT !.likeCount = @ + 1, !.likedBy = Pull(@, req.email), !.ver = @ + 1]
    ELSE [doc EXCEPT !.likeCount = @ + 1, !.likedBy = AddToSet(@, req.email), !.ver = @ + 1]

\* The branch is chosen by the membership in the document as it is when the
\* update runs, not by the membership that was read.
LikeUpdateByCurrent(doc, req) ==
  IF Includes(doc.likedBy, req.email)
    THEN [doc EXCEPT !.likeCount = @ - 1, !.likedBy = Pull(@, req.email), !.ver = @ + 1]
    ELSE [doc EXCEPT !.likeCount = @ + 1, !.likedBy = AddToSet(@, req.email), !.ver = @ + 1]

LikeUpdate(doc, req) ==
  IF req.hasLiked
    THEN [doc EXCEPT !.likeCount = @ - 1, !.likedBy = Pull(@, req.email), !.ver = @ + 1]
    ELSE [doc EXCEPT !.likeCount = @ + 1, !.likedBy = AddToSet(@, req.email), !.ver = @ + 1]

\* The handlers test matchedCount: 1 for any document matched.
MatchedCount(old, new) == 1

\* modifiedCount of an updateOne that matched `old` and left `new`
ModifiedCount(old, new) ==
  IF [new EXCEPT !.ver = 0] = [old EXCEPT !.ver = 0] THEN 0 ELSE 1

\* The status of a toggle that ends before its updateOne (lines 146-155),
\* 0 when it goes on to the update.
ToggleEarlyStatus(id, email) ==
  IF Falsy(email) THEN 400
  ELSE IF ObjectIdThrows(id) THEN 500
  ELSE IF id \notin DOMAIN store THEN 404
  ELSE 0

\* A toggle request that is answered in its first step
ToggleReject(id, email) ==
  /\ ToggleEarlyStatus(id, email) # 0
  /\ UNCHANGED <<store, nextOid, tg, gr, cookie, minted, listing>>

\* Arrival, the e-mail check, and findOne finding the document (lines
\* 143-161).  Requests take the slots of tg in the order of their index,
\* which loses no behaviour: the slots are interchangeable.
ToggleRead(p, id, email) ==
  /\ tg[p].pc = "idle"
  /\ \A q \in Procs : q < p => tg[q].pc # "idle"
  /\ ToggleEarlyStatus(id, email) = 0
  /\ tg' = [tg EXCEPT ![p] =
       [NoToggle EXCEPT !.pc = "update", !.id = id, !.email = email,
                        !.hasLiked = Includes(store[id].likedBy, email),
                        !.countRead = store[id].likeCount,
                        !.verRead = store[id].ver]]
  /\ UNCHANGED <<store, nextOid, gr, cookie, minted, listing>>

\* updateOne runs as an upsert: it inserts a document when none matches.
ToggleWriteUpsert(p) ==
  /\ tg[p].pc = "update"
  /\ LET id == tg[p].id
         old == IF id \in DOMAIN store THEN store[id]
                ELSE NewDoc([email |-> Undefined, fields |-> Undefined])
         new == LikeUpdate(old, tg[p])
     IN /\ store' = Insert(store, id, new)
        /\ tg' = [tg EXCEPT ![p] =
             [@ EXCEPT !.pc = "done", !.status = 200,
                       !.liked = ~tg[p].hasLiked, !.verWrite = new.ver]]
  /\ UNCHANGED <<nextOid, gr, cookie, minted, listing>>

\* updateOne and the response (lines 173-179)
ToggleWrite(p) ==
  /\ tg[p].pc = "update"
  /\ LET id == tg[p].id
         matched == id \in DOMAIN store
         new == LikeUpdate(store[id], tg[p])
         modified == IF matched THEN ModifiedCount(store[id], new) ELSE 0
     IN /\ store' = IF matched THEN [store EXCEPT ![id] = new] ELSE store
        /\ tg' = [tg EXCEPT ![p] =
             IF modified = 1
               THEN [@ EXCEPT !.pc = "done", !.status = 200,
                              !.liked = ~tg[p].hasLiked, !.verWrite = new.ver]
               ELSE [@ EXCEPT !.pc = "done", !.status = 500]]
  /\ UNCHANGED <<nextOid, gr, cookie, minted, listing>>

\* ---- PATCH /artifact/:id
UpdateBodies == {Undefined} \cup Vals

\* the driver writes an undefined value as null
Bson(v) == IF v = Undefined THEN Null ELSE v

\* The update replaces the document's likes along with the descriptive fields.
SetFieldsAndLikes(doc, body) ==
  [doc EXCEPT !.fields = Bson(body), !.likedBy = <<>>, !.likeCount = 0]

\* $set of the descriptive fields (lines 193-204)
SetFields(doc, body) == [doc EXCEPT !.fields = Bson(body)]

\* the handler's outcome: the status sent and the collection left
UpdateOutcome(id, body) ==
  IF ObjectIdThrows(id)
    THEN [status |-> 500, store |-> store]
  ELSE LET matched == id \in DOMAIN store
           new == SetFields(store[id], body)
           modified == IF matched THEN ModifiedCount(store[id], new) ELSE 0
       IN [status |-> IF modified = 1 THEN 200 ELSE 404,
           store |-> IF matched THEN [store EXCEPT ![id] = new] ELSE store]

Update(id, body) ==
  /\ store' = UpdateOutcome(id, body).store
  /\ UNCHANGED <<nextOid, tg, gr, cookie, minted, listing>>

\* ---- DELETE /artifact/:id
\* the handler's outcome: the status sent and the collection left
DeleteOutcome(id) ==
  IF ObjectIdThrows(id)
    THEN [status |-> 500, store |-> store]
  ELSE IF id \in DOMAIN store
    THEN [status |-> 200, store |-> Remove(store, id)]
    ELSE [status |-> 404, store |-> store]

Delete(id) ==
  /\ store' = DeleteOutcome(id).store
  /\ UNCHANGED <<nextOid, tg, gr, cookie, minted, listing>>

\* ---- the guarded endpoints
Routes == {"my", "liked"}
QueryEmails == {Undefined, EmptyStr} \cup Emails

\* The callback of jwt.verify calls next() on an error as well.
VerifyTokenPassesError(route, token, qemail) ==
  /\ gr.pc \in {"idle", "done"}
  /\ LET req == [NoGuarded EXCEPT !.route = route, !.token = token, !.jar = cookie,
                                  !.qemail = qemail] IN
     gr' = IF TokenFalsy(token)
             THEN [req EXCEPT !.pc = "done", !.status = 401]
           ELSE IF JwtVerifyErr(token)
             THEN [req EXCEPT !.pc = "handler", !.verifyTried = TRUE]
           ELSE [req EXCEPT !.pc = "handler", !.verifyTried = TRUE,
                            !.user = token.email, !.attached = TRUE]
  /\ UNCHANGED <<store, nextOid, tg, cookie, minted, listing>>

\* The middleware accepts a token only while it is the one in the cookie
\* the server has set last: a logout or a later POST /jwt revokes it.
VerifyTokenSession(route, token, qemail) ==
  /\ gr.pc \in {"idle", "done"}
  /\ LET req == [NoGuarded EXCEPT !.route = route, !.token = token, !.jar = cookie,
                                  !.qemail = qemail] IN
     gr' = IF TokenFalsy(token)
             THEN [req EXCEPT !.pc = "done", !.status = 401]
           ELSE IF JwtVerifyErr(token) \/ token # cookie
             THEN [req EXCEPT !.pc = "done", !.status = 401, !.verifyTried = TRUE]
           ELSE [req EXCEPT !.pc = "handler", !.verifyTried = TRUE,
                            !.user = token.email, !.attached = TRUE]
  /\ UNCHANGED <<store, nextOid, tg, cookie, minted, listing>>

\* verifyToken (lines 21-34), run on the arrival of a request to a guarded
\* endpoint: it answers 401, or sets req.user and passes control on.
VerifyToken(route, token, qemail) ==
  /\ gr.pc \in {"idle", "done"}
  /\ LET req == [NoGuarded EXCEPT !.route = route, !.token = token, !.jar = cookie,
                                  !.qemail = qemail] IN
     gr' = IF TokenFalsy(token)
             THEN [req EXCEPT !.pc = "done", !.status = 401]
           ELSE IF JwtVerifyErr(token)
             THEN [req EXCEPT !.pc = "done", !.status = 401, !.verifyTried = TRUE]
           ELSE [req EXCEPT !.pc = "handler", !.verifyTried = TRUE,
                            !.user = token.email, !.attached = TRUE]
  /\ UNCHANGED <<store, nextOid, tg, cookie, minted, listing>>

\* The handler without its comparison of req.user.email with the query.
MyArtifactsNoOwnerCheck ==
  /\ gr.pc = "handler"
  /\ gr.route = "my"
  /\ gr' = IF Falsy(gr.qemail)
             THEN [gr EXCEPT !.pc = "done", !.handlerRan = TRUE, !.status = 400]
           ELSE [gr EXCEPT !.pc = "done", !.handlerRan = TRUE, !.status = 200,
                           !.finds = @ + 1,
                           !.result = {k \in DOMAIN store : store[k].addedBy = gr.qemail}]
  /\ UNCHANGED <<store, nextOid, tg, cookie, minted, listing>>

\* GET /my-artifacts (lines 122-139)
MyArtifacts ==
  /\ gr.pc = "handler"
  /\ gr.route = "my"
  /\ gr' = IF gr.user # gr.qemail
             THEN [gr EXCEPT !.pc = "done", !.handlerRan = TRUE, !.status = 403]
           ELSE IF Falsy(gr.qemail)
             THEN [gr EXCEPT !.pc = "done", !.handlerRan = TRUE, !.status = 400]
           ELSE [gr EXCEPT !.pc = "done", !.handlerRan = TRUE, !.status = 200,
                           !.finds = @ + 1,
                           !.result = {k \in DOMAIN store : store[k].addedBy = gr.qemail}]
  /\ UNCHANGED <<store, nextOid, tg, cookie, minted, listing>>

\* An empty result is sent as a 200 with an empty array.
LikedArtifactsEmptyOk ==
  /\ gr.pc = "handler"
  /\ gr.route = "liked"
  /\ LET liked == {k \in DOMAIN store : Includes(store[k].likedBy, gr.user)} IN
     gr' = [gr EXCEPT !.pc = "done", !.handlerRan = TRUE, !.status = 200,
                      !.finds = @ + 1, !.result = liked]
  /\ UNCHANGED <<store, nextOid, tg, cookie, minted, listing>>

\* GET /liked-artifacts (lines 254-271)
LikedArtifacts ==
  /\ gr.pc = "handler"
  /\ gr.route = "liked"
  /\ LET liked == {k \in DOMAIN store : Includes(store[k].likedBy, gr.user)} IN
     gr' = IF liked # {}
             THEN [gr EXCEPT !.pc = "done", !.handlerRan = TRUE, !.status = 200,
                             !.finds = @ + 1, !.result = liked]
             ELSE [gr EXCEPT !.pc = "done", !.handlerRan = TRUE, !.status = 404,
                             !.finds = @ + 1]
  /\ UNCHANGED <<store, nextOid, tg, cookie, minted, listing>>

\* ---- POST /jwt and POST /logout
\* req.body, the claims to sign: {} or {email: e}
JwtBodies == [email : {Undefined} \cup Emails]

\* jwt.sign with ACCESS_TOKEN_SECRET and expiresIn "365d": the token as it
\* is until its exp passes
Sign(body) == [kind |-> "jwt", email |-> body.email, signed |-> TRUE, expired |-> FALSE]

\* The handler signs only for a caller whose cookie is already a token the
\* middleware accepts for the same e-mail.
JwtNeedsCredential(body) ==
  /\ ValidToken(cookie)
  /\ cookie.email = body.email
  /\ cookie' = Sign(body)
  /\ minted' = minted \cup {Sign(body)}
  /\ UNCHANGED <<store, nextOid, tg, gr, listing>>

\* POST /jwt (lines 54-65): signs the body and sets the cookie
Jwt(body) ==
  /\ cookie' = Sign(body)
  /\ minted' = minted \cup {Sign(body)}
  /\ UNCHANGED <<store, nextOid, tg, gr, listing>>

\* POST /logout (lines 68-75): clears the cookie
Logout ==
  /\ cookie' = NoToken
  /\ UNCHANGED <<store, nextOid, tg, gr, minted, listing>>

\* ---- GET /history
\* The positive number c stands for the c-th non-empty text over Alphabet in
\* shortlex order: 1 is "a", 4 is ".", 5 is "aa", 6 is "aA".
Alphabet == <<"a", "A", "b", ".">>

RECURSIVE Text(_)
Text(c) ==
  IF c < 1 THEN <<>>
  ELSE Text((c - 1) \div Len(Alphabet)) \o <<Alphabet[((c - 1) % Len(Alphabet)) + 1]>>

NameCodes == 1..NumNames

\* the bodies of creations with a name, and the search parameters
NamedBodies ==
  [id : {Undefined}, email : {1}, fields : NameCodes,
   likes : {[likedBy |-> <<>>, likeCount |-> 0]}]
Searches == {Undefined, EmptyStr} \cup NameCodes

\* the letter a character is compared as under $options "i"
Lower(ch) == IF ch = "A" THEN "a" ELSE ch

\* $regex with $options "i", for a pattern of letters and dots: the pattern
\* matches at some offset of the text, a dot matching any character and a
\* letter matching itself in either case
RegexFind(pat, text) ==
  \E off \in 0..(Len(text) - Len(pat)) :
    \A i \in 1..Len(pat) :
      pat[i] = "." \/ Lower(pat[i]) = Lower(text[off + i])

\* the handler's outcome: the status sent and the _ids of the documents sent;
\* a name that is no string (missing, null) matches no pattern
HistoryOutcome(search) ==
  [status |-> 200,
   result |-> IF Falsy(search) THEN DOMAIN store
              ELSE {k \in DOMAIN store :
                      store[k].fields >= 1
                      /\ RegexFind(Text(search), Text(store[k].fields))}]

\* GET /history (lines 105-119)
History(search) ==
  /\ listing' = [search |-> search, status |-> HistoryOutcome(search).status,
                 result |-> HistoryOutcome(search).result]
  /\ UNCHANGED <<store, nextOid, tg, gr, cookie, minted>>

\* The end of a toggle request: its response has been sent, and the handler's
\* state is gone.
Forget(p) ==
  /\ tg[p].pc = "done"
  /\ tg' = [tg EXCEPT ![p] = NoToggle]
  /\ UNCHANGED <<store, nextOid, gr, cookie, minted, listing>>

ToggleEmails == {Undefined, EmptyStr} \cup Emails

\* ---- the like engine and the store: the requests that write likedBy and
\* likeCount, with the other writers of the collection.  The guarded
\* endpoints only read the collection and write gr, which nothing else reads.
Next ==
  \/ \E body \in PlainBodies : Create(body)
  \/ \E id \in IdParams, email \in ToggleEmails : ToggleReject(id, email)
  \/ \E p \in Procs, id \in IdParams, email \in ToggleEmails : ToggleRead(p, id, email)
  \/ \E p \in Procs : ToggleWrite(p)
  \/ \E id \in IdParams, body \in UpdateBodies : Update(id, body)
  \/ \E id \in IdParams : Delete(id)

Spec == Init /\ [][Next]_vars

\* ---- the guarded endpoints over a collection filled by creations (a
\* client-supplied _id included) and emptied by deletions
GuardNext ==
  \/ \E body \in BareBodies : Create(body)
  \/ \E id \in IdParams : Delete(id)
  \/ \E route \in Routes, token \in Tokens, qemail \in QueryEmails :
       VerifyToken(route, token, qemail)
  \/ MyArtifacts
  \/ LikedArtifacts

GuardSpec == Init /\ [][GuardNext]_vars

\* ---- the guarded endpoints with the issue and the clearing of the cookie:
\* a client signs in and out, and sends any token whatever its cookie
SessionNext ==
  \/ \E body \in JwtBodies : Jwt(body)
  \/ Logout
  \/ \E body \in {b \in PlainBodies \cap BareBodies : b.email \in Emails} : Create(body)
  \/ \E token \in Tokens, qemail \in QueryEmails : VerifyToken("my", token, qemail)
  \/ \E token \in Tokens : VerifyToken("liked", token, Undefined)
  \/ MyArtifacts
  \/ LikedArtifacts

SessionSpec == Init /\ [][SessionNext]_vars

\* ---- the listing over a collection of named artifacts
SearchNext ==
  \/ \E body \in NamedBodies : Create(body)
  \/ \E id \in ObjectIds : Delete(id)
  \/ \E search \in Searches : History(search)

SearchSpec == Init /\ [][SearchNext]_vars

\* ---- any number of toggles, NumProcs of them at a time: a request that has
\* been answered leaves its slot to a later one.  A toggle is let in while
\* fewer than MaxUpdates like-updates have been applied to its artifact.
RaceNext ==
  \/ \E body \in {b \in PlainBodies \cap BareBodies : b.email \in Emails} : Create(body)
  \/ \E p \in Procs, id \in ObjectIds, email \in Emails :
       ToggleRead(p, id, email) /\ store[id].ver < MaxUpdates
  \/ \E p \in Procs : ToggleWrite(p)
  \/ \E p \in Procs : Forget(p)

RaceSpec == Init /\ [][RaceNext]_vars

\* ---- GET /liked-artifacts over a collection the toggles write: creations
\* that leave the _id to the driver, toggles, deletions, and requests to the
\* endpoint with no token or with a token the middleware accepts
LikedNext ==
  \/ \E body \in PlainBodies \cap BareBodies : Create(body)
  \/ \E p \in Procs, id \in ObjectIds, email \in Emails : ToggleRead(p, id, email)
  \/ \E p \in Procs : ToggleWrite(p)
  \/ \E id \in ObjectIds : Delete(id)
  \/ \E token \in {NoToken} \cup {t \in Tokens : ValidToken(t)} :
       VerifyToken("liked", token, Undefined)
  \/ LikedArtifacts

LikedSpec == Init /\ [][LikedNext]_vars

\* ---- toggles against deletions, in a collection that may hold a second
\* artifact (one created with the _id 0), which no toggle addresses
VanishNext ==
  \/ \E body \in {b \in BareBodies : b.email \in Emails} : Create(body)
  \/ \E p \in Procs, id \in ObjectIds, email \in Emails : ToggleRead(p, id, email)
  \/ \E p \in Procs : ToggleWrite(p)
  \/ \E id \in IdParams : Delete(id)

VanishSpec == Init /\ [][VanishNext]_vars
\* ======================================================================
\* Properties of the like engine (checked under Spec)

\* the toggle requests that found artifact a
OnArtifact(a) == {p \in Procs : tg[p].pc # "idle" /\ tg[p].id = a}

\* the set of the elements of an array
Elems(arr) == {arr[i] : i \in 1..Len(arr)}

\* C1: whenever no toggle request is between its findOne and its updateOne,
\* every stored artifact has likeCount equal to the number of elements of
\* likedBy.
C1_CountIsCardinality ==
  (\A p \in Procs : tg[p].pc # "update")
    => \A k \in DOMAIN store : store[k].likeCount = Len(store[k].likedBy)

\* C2: when the toggle requests made on an artifact since its creation are
\* by pairwise distinct e-mails and all have completed, in whatever order
\* their reads and writes ran, likeCount is their number, likedBy holds
\* exactly their e-mails, and each was answered 200 with liked = true.
C2_NoLostUpdate ==
  \A a \in DOMAIN store :
    LET T == OnArtifact(a) IN
    ( /\ T # {}
      /\ \A p \in T : tg[p].pc = "done"
      /\ \A p, q \in T : p # q => tg[p].email # tg[q].email )
    => /\ store[a].likeCount = Cardinality(T)
       /\ Len(store[a].likedBy) = Cardinality(T)
       /\ Elems(store[a].likedBy) = {tg[p].email : p \in T}
       /\ \A p \in T : tg[p].status = 200 /\ tg[p].liked

\* two requests by distinct e-mails both read the fresh artifact before
\* either wrote, and both have completed
C2_Witness ==
  \E p, q \in Procs :
    /\ p # q
    /\ tg[p].pc = "done" /\ tg[q].pc = "done"
    /\ tg[p].id = tg[q].id /\ tg[p].id \in DOMAIN store
    /\ tg[p].email # tg[q].email
    /\ tg[p].verRead = 0 /\ tg[q].verRead = 0
    /\ store[tg[p].id].likeCount = 2

\* p and q are two completed toggles of the same e-mail on the same stored
\* artifact, p read no later than q, and theirs are the only two
\* like-updates applied since p read
OnlyTwoSince(p, q) ==
  /\ p # q
  /\ tg[p].status = 200 /\ tg[q].status = 200
  /\ tg[p].id = tg[q].id /\ tg[p].id \in DOMAIN store
  /\ tg[p].email = tg[q].email
  /\ tg[p].verRead <= tg[q].verRead
  /\ store[tg[p].id].ver = tg[p].verRead + 2

\* C3: two toggles by the same e-mail on the same artifact, in whatever
\* order their reads and writes ran, leave likeCount neither 2 above nor 2
\* below its value before the two started.
C3_NoDoubleCount ==
  \A p, q \in Procs :
    OnlyTwoSince(p, q)
      => /\ store[tg[p].id].likeCount # tg[p].countRead + 2
         /\ store[tg[p].id].likeCount # tg[p].countRead - 2

\* q ran after p with nothing between: p's update was the first after its
\* read, q read what p wrote, q's update was the next, and no like-update
\* followed
Sequential(p, q) ==
  /\ p # q
  /\ tg[p].pc = "done" /\ tg[q].pc = "done"
  /\ tg[p].id = tg[q].id /\ tg[p].id \in DOMAIN store
  /\ tg[p].email = tg[q].email
  /\ tg[p].verWrite = tg[p].verRead + 1
  /\ tg[q].verRead = tg[p].verWrite
  /\ tg[q].verWrite = tg[q].verRead + 1
  /\ store[tg[p].id].ver = tg[q].verWrite

\* C4: two toggles of the same (artifact, e-mail) run one after the other:
\* the first answers liked = (the e-mail was not in likedBy), the second the
\* negation, and afterwards the e-mail's membership and likeCount are what
\* they were before the first.
C4_DoubleToggleIdentity ==
  \A p, q \in Procs :
    Sequential(p, q)
      => /\ tg[p].status = 200 /\ tg[q].status = 200
         /\ tg[p].liked = ~tg[p].hasLiked
         /\ tg[q].liked = ~tg[p].liked
         /\ Includes(store[tg[p].id].likedBy, tg[p].email) = tg[p].hasLiked
         /\ store[tg[p].id].likeCount = tg[p].countRead

C4_Witness == \E p, q \in Procs : Sequential(p, q) /\ tg[p].liked /\ ~tg[q].liked

\* C9: a toggle with an empty or missing e-mail is answered 400 (and so
\* before any findOne), and one with an e-mail and an id that matches no
\* stored artifact is answered 404; neither goes on to the update.
C9_TogglePreconditions ==
  \A id \in IdParams, email \in ToggleEmails :
    /\ Falsy(email) => ToggleEarlyStatus(id, email) = 400
    /\ (~Falsy(email) /\ id \notin DOMAIN store) => ToggleEarlyStatus(id, email) = 404

\* C10: in every state, for every request, the collection PATCH
\* /artifact/:id leaves has the same _ids, the same likedBy, likeCount and
\* addedBy in every artifact, and no change in an artifact other than the
\* addressed one; and what a toggle that has read and not yet written will
\* do to likedBy and likeCount is the same after the update as before it.
C10_UpdateFrame ==
  \A id \in IdParams, body \in UpdateBodies :
    LET new == UpdateOutcome(id, body).store IN
    /\ DOMAIN new = DOMAIN store
    /\ \A k \in DOMAIN store :
         /\ new[k].likedBy = store[k].likedBy
         /\ new[k].likeCount = store[k].likeCount
         /\ new[k].addedBy = store[k].addedBy
         /\ k # id => new[k] = store[k]
    /\ \A p \in Procs :
         (tg[p].pc = "update" /\ tg[p].id \in DOMAIN store)
           => LET before == LikeUpdate(store[tg[p].id], tg[p])
                  after == LikeUpdate(new[tg[p].id], tg[p])
              IN /\ after.likedBy = before.likedBy
                 /\ after.likeCount = before.likeCount

\* an artifact that has a like and whose descriptive fields an update has
\* overwritten with null, while a toggle on it is between read and write
C10_Witness ==
  \E p \in Procs :
    /\ tg[p].pc = "update"
    /\ tg[p].id \in DOMAIN store
    /\ store[tg[p].id].fields = Null
    /\ store[tg[p].id].likeCount = 1

C17_LikedByIsSet ==
  \A k \in DOMAIN store :
    \A i, j \in 1..Len(store[k].likedBy) :
      store[k].likedBy[i] = store[k].likedBy[j] => i = j

\* two toggles of one e-mail both read it as absent and both ran their
\* $addToSet
C17_Witness ==
  \E p, q \in Procs :
    /\ p # q
    /\ tg[p].status = 200 /\ tg[q].status = 200
    /\ tg[p].id = tg[q].id /\ tg[p].id \in DOMAIN store
    /\ tg[p].email = tg[q].email
    /\ ~tg[p].hasLiked /\ ~tg[q].hasLiked
    /\ store[tg[p].id].likedBy = <<tg[p].email>>

\* C18: whenever a toggle's updateOne is answered 200 with liked = b, the
\* e-mail is in the artifact's likedBy just after that updateOne exactly
\* when b is true, whatever was written between the toggle's read and its
\* write.
C18_LikedIsMembership ==
  [][\A p \in Procs :
       (tg[p].pc = "update" /\ tg'[p].pc = "done" /\ tg'[p].status = 200)
         => (Includes(store'[tg[p].id].likedBy, tg[p].email) <=> tg'[p].liked)]_vars

\* a toggle read its e-mail as absent, another toggle of the same e-mail
\* added it, and then the first wrote and answered liked = true
C18_Witness ==
  \E p, q \in Procs :
    /\ p # q
    /\ tg[p].status = 200 /\ tg[p].liked
    /\ tg[q].status = 200 /\ tg[q].liked
    /\ tg[q].id = tg[p].id /\ tg[q].email = tg[p].email
    /\ tg[q].verWrite = tg[p].verRead + 1
    /\ tg[p].verWrite = tg[p].verRead + 2
\* ======================================================================
\* Properties of creation and of the guarded endpoints (checked under
\* GuardSpec)

\* C5: POST /history without addedBy.email is answered 400 and leaves the
\* collection as it was; with addedBy.email, when the insert succeeds, it is
\* answered 201 and the new document has likeCount 0 and an empty likedBy,
\* whatever the client sent for the two.
C5_CreateContract ==
  \A body \in CreateBodies :
    LET out == CreateOutcome(body) IN
    /\ body.email = Undefined => (out.status = 400 /\ out.store = store)
    /\ (body.email # Undefined /\ out.store # store)
         => /\ out.status = 201
            /\ \A k \in DOMAIN out.store \ DOMAIN store :
                 out.store[k].likeCount = 0 /\ out.store[k].likedBy = <<>>

\* C6: a request to GET /my-artifacts with a valid credential whose e-mail
\* claim differs from the e-mail asked for is answered 403 without a find;
\* it is answered 200 only with a valid credential whose e-mail is the one
\* asked for, and then with exactly the artifacts whose addedBy.email is
\* that e-mail.
C6_Ownership ==
  [][(gr'.pc = "done" /\ gr'.route = "my" /\ gr' # gr)
       => /\ (ValidToken(gr'.token) /\ gr'.token.email # gr'.qemail)
               => (gr'.status = 403 /\ gr'.finds = 0 /\ gr'.result = {})
          /\ gr'.status = 200
               => /\ ValidToken(gr'.token)
                  /\ gr'.token.email = gr'.qemail
                  /\ gr'.token.email \in Emails
                  /\ gr'.result =
                       {k \in DOMAIN store : store[k].addedBy = gr'.token.email}]_vars

\* a 200 that lists the caller's artifact and leaves out another user's
C6_Witness ==
  /\ gr.route = "my" /\ gr.pc = "done" /\ gr.status = 200
  /\ gr.result # {}
  /\ gr.result = {k \in DOMAIN store : store[k].addedBy = gr.token.email}
  /\ \E k \in DOMAIN store : k \notin gr.result

\* C7: at both guarded endpoints a request without a token cookie is
\* answered 401 with no call of jwt.verify, one whose token fails
\* verification is answered 401, in both cases without the handler running
\* or a find being issued; the handler gets control only with the decoded
\* identity attached to the request.
C7_GateOrdering ==
  gr.pc # "idle"
    => /\ TokenFalsy(gr.token)
            => /\ gr.pc = "done" /\ gr.status = 401
               /\ ~gr.verifyTried /\ ~gr.handlerRan /\ gr.finds = 0 /\ gr.result = {}
       /\ (~TokenFalsy(gr.token) /\ JwtVerifyErr(gr.token))
            => /\ gr.pc = "done" /\ gr.status = 401
               /\ ~gr.handlerRan /\ gr.finds = 0 /\ gr.result = {}
       /\ (gr.pc = "handler" \/ gr.handlerRan)
            => gr.attached /\ gr.verifyTried /\ gr.user = gr.token.email

\* a token with a bad signature was refused while the collection held an artifact
C7_Witness ==
  /\ gr.pc = "done" /\ gr.status = 401
  /\ gr.token.kind = "jwt" /\ ~gr.token.signed /\ gr.verifyTried
  /\ DOMAIN store # {}

\* C8: GET /my-artifacts with a valid credential and no email query
\* parameter is answered 400, whatever the credential's claims.
C8_MissingEmailIs400 ==
  (gr.route = "my" /\ gr.pc = "done" /\ ValidToken(gr.token) /\ gr.qemail = Undefined)
    => gr.status = 400
\* ======================================================================
\* Properties of GET /liked-artifacts (checked under LikedSpec)

\* no toggle of the same (artifact, e-mail) has written after p's write
LastWriteBy(p) ==
  \A q \in Procs \ {p} :
    (tg[q].status = 200 /\ tg[q].id = tg[p].id /\ tg[q].email = tg[p].email)
      => tg[q].verWrite < tg[p].verWrite

\* C11: GET /liked-artifacts with a valid credential for e-mail e is
\* answered 200 with exactly the stored artifacts whose likedBy contains e
\* when there is one, and 404 when there is none; so a stored artifact on
\* which e's toggle was the last of e's to write is in the result when that
\* toggle answered liked = true and is not when it answered liked = false.
C11_LikedListing ==
  [][(gr.pc = "handler" /\ gr.route = "liked" /\ gr'.pc = "done" /\ gr.user \in Emails)
       => LET e == gr.user
              S == {k \in DOMAIN store : e \in Elems(store[k].likedBy)}
          IN /\ S # {} => (gr'.status = 200 /\ gr'.result = S)
             /\ S = {} => (gr'.status = 404 /\ gr'.result = {})
             /\ \A p \in Procs :
                  ( /\ tg[p].status = 200 /\ tg[p].email = e
                    /\ tg[p].id \in DOMAIN store /\ LastWriteBy(p) )
                  => ((tg[p].id \in gr'.result) <=> tg[p].liked)]_vars

\* the listing was answered 200 with an artifact a toggle of the same
\* e-mail reported as liked, while another user's like is on it too
C11_Witness ==
  /\ gr.route = "liked" /\ gr.pc = "done" /\ gr.status = 200
  /\ \E p, q \in Procs :
       /\ tg[p].status = 200 /\ tg[p].liked /\ tg[p].email = gr.user
       /\ tg[p].id \in gr.result /\ tg[p].id \in DOMAIN store
       /\ tg[q].status = 200 /\ tg[q].id = tg[p].id /\ tg[q].email # gr.user
       /\ Len(store[tg[p].id].likedBy) = 2
\* ======================================================================
\* Properties of a toggle whose artifact is deleted (checked under VanishSpec)

\* C12: when the artifact a toggle has read is deleted before the toggle's
\* updateOne, the toggle is answered 500 and reports no liked value, and its
\* updateOne leaves the collection as it was: the artifact is not
\* re-created and no other artifact changes.
C12_VanishedDocument ==
  [][\A p \in Procs :
       (tg[p].pc = "update" /\ tg'[p].pc = "done" /\ tg[p].id \notin DOMAIN store)
         => /\ tg'[p] = [tg[p] EXCEPT !.pc = "done", !.status = 500]
            /\ store' = store]_vars

\* a toggle failed on a deleted artifact while another artifact is stored
C12_Witness ==
  \E p \in Procs :
    /\ tg[p].pc = "done" /\ tg[p].status = 500
    /\ tg[p].id \notin DOMAIN store
    /\ DOMAIN store # {}
\* ======================================================================
\* Properties of the credentials (checked under SessionSpec)

\* C13: whether the middleware lets a request through depends on the token
\* alone (a JWT signed with the secret and not expired), whatever the
\* cookie, the tokens issued and the collection are; so a token POST /jwt
\* has issued is accepted, with its e-mail as the identity, after any
\* POST /logout and POST /jwt, as long as it has not expired.
C13_StatelessTokens ==
  [][(gr.pc \in {"idle", "done"} /\ gr' # gr)
       => /\ (gr'.pc = "handler") <=> ValidToken(gr'.token)
          /\ (gr'.pc # "handler") => (gr'.pc = "done" /\ gr'.status = 401)
          /\ gr'.token \in minted
               => (gr'.pc = "handler" /\ gr'.attached /\ gr'.user = gr'.token.email)]_vars

\* a token POST /jwt issued is accepted on a request that arrived after a
\* logout had cleared the cookie
C13_Witness ==
  /\ gr.pc = "handler"
  /\ gr.token \in minted
  /\ gr.jar = NoToken

\* C14: in every state, whatever cookie the caller holds (none included),
\* POST /jwt with the claims {email: e} answers with a token the middleware
\* accepts and whose identity is e, for every e-mail e; and a request to
\* GET /my-artifacts?email=e that carries a token so issued is answered 200
\* with the artifacts e added.
C14_UnauthenticatedMinting ==
  /\ [](\A e \in Emails :
         ENABLED ( /\ Jwt([email |-> e])
                   /\ ValidToken(cookie') /\ cookie'.email = e
                   /\ cookie' \in minted' ))
  /\ [][( /\ gr.pc = "handler" /\ gr.route = "my" /\ gr'.pc = "done"
          /\ gr.token \in minted
          /\ gr.qemail \in Emails /\ gr.qemail = gr.token.email )
         => /\ gr'.status = 200
            /\ gr'.result = {k \in DOMAIN store : store[k].addedBy = gr.qemail}]_vars

\* the only token ever issued was therefore issued to a caller with no
\* credential; sent back as the cookie, it got that e-mail's artifacts
C14_Witness ==
  /\ gr.route = "my" /\ gr.pc = "done" /\ gr.status = 200
  /\ gr.result # {}
  /\ minted = {gr.token}
  /\ gr.jar = gr.token
  /\ gr.qemail = gr.token.email
\* ======================================================================
\* Properties of GET /history (checked under SearchSpec)

\* s occurs in the text as a substring, letter case ignored
ContainsIgnoringCase(text, s) ==
  \E off \in 0..(Len(text) - Len(s)) :
    \A i \in 1..Len(s) : Lower(s[i]) = Lower(text[off + i])

\* C16: GET /history with a search text s sends exactly the stored
\* artifacts whose name contains s as a substring, letter case ignored, for
\* every text s; without a search parameter it sends every stored artifact.
C16_SearchIsSubstring ==
  \A search \in Searches :
    LET out == HistoryOutcome(search) IN
    /\ out.status = 200
    /\ out.result =
         IF search = Undefined THEN DOMAIN store
         ELSE {k \in DOMAIN store :
                 store[k].fields >= 1
                 /\ ContainsIgnoringCase(Text(store[k].fields), Text(search))}
\* ======================================================================
\* Properties of the like count over any number of toggles (checked under
\* RaceSpec)

\* C19: in every reachable state, after any creations and toggles, however
\* the toggles' reads and writes interleaved, every stored artifact has
\* likeCount >= 0.
C19_CountNonNegative ==
  \A k \in DOMAIN store : store[k].likeCount >= 0
====
